---- MODULE Spec2Model ----
(***************************************************************************)
(* Model of the hex-magic procedural macros: the hex-string lexer          *)
(* (hex_string/mod.rs), the byte-pattern parser and its Display            *)
(* (parse_struct/byte_pattern.rs), the struct-field and struct parsers     *)
(* (parse_struct/hex_struct_field.rs, parse_struct/hex_struct.rs) and the  *)
(* code their to_tokens emit, executed against a std::io::Read reader.     *)
(***************************************************************************)
EXTENDS Integers, Sequences, FiniteSets, TLC

(***************************************************************************)
(* Bounds.                                                                 *)
(***************************************************************************)
\* longest hex-string literal handed to the lexer
MaxLen == 4
\* most fields in a struct specification
MaxFields == 3
\* most bytes held by the reader
MaxStream == 5
\* most elements of an array pattern
MaxElems == 3

(***************************************************************************)
(* Characters are u8 values, as in `let chars: Vec<u8>`.                   *)
(***************************************************************************)
ChDot == 46
ChUnderscore == 95
ChSpace == 32
ChCR == 13
ChLF == 10
ChTab == 9
Ch0 == 48
Ch9 == 57
ChLowerA == 97
ChLowerF == 102
ChUpperA == 65
ChUpperF == 70

\* the characters the lexer inputs are built from: '7' 'd' 'D' '_' '.' ' '
\* '\n' and the invalid 'g'
LexAlphabet == {55, 100, 68, ChUnderscore, ChDot, ChSpace, ChLF, 103}

\* the one element of a singleton: The({e(x) : x \in {v}}) is `let x = v; e`,
\* with v computed once
The(S) == CHOOSE x \in S : TRUE

IsDigit(c) == c >= Ch0 /\ c <= Ch9
IsLower(c) == c >= ChLowerA /\ c <= ChLowerF
IsUpper(c) == c >= ChUpperA /\ c <= ChUpperF
IsHex(c) == IsDigit(c) \/ IsLower(c) \/ IsUpper(c)
IsWhitespace(c) == c \in {ChSpace, ChCR, ChLF, ChTab}

\* c - b'0', c - b'a' + 10, c - b'A' + 10
Nibble(c) ==
  IF IsDigit(c) THEN c - Ch0
  ELSE IF IsLower(c) THEN c - ChLowerA + 10
  ELSE c - ChUpperA + 10

RECURSIVE BitOr(_, _)
BitOr(a, b) ==
  IF a = 0 THEN b
  ELSE IF b = 0 THEN a
  ELSE (IF (a % 2 = 1) \/ (b % 2 = 1) THEN 1 ELSE 0) + 2 * BitOr(a \div 2, b \div 2)

\* (msb << 4) | nibble on u8
MakeByteLowNibbleOnly(m, n) == n
MakeByte(m, n) == BitOr((m * 16) % 256, n)

(***************************************************************************)
(* HexValue                                                                *)
(***************************************************************************)
Number(v) == [kind |-> "Number", value |-> v]
Underscore == [kind |-> "Underscore", value |-> 0]
DotDot == [kind |-> "DotDot", value |-> 0]

HexChars == <<"0", "1", "2", "3", "4", "5", "6", "7", "8", "9", "A", "B", "C", "D", "E", "F">>

\* format!("{:02X}", value)
Hex02X(v) == HexChars[(v \div 16) + 1] \o HexChars[(v % 16) + 1]

HexValueDisplay(e) ==
  CASE e.kind = "Number" -> Hex02X(e.value)
    [] e.kind = "Underscore" -> "__"
    [] e.kind = "DotDot" -> ".."

\* strs.join(", ")
RECURSIVE JoinComma(_)
JoinComma(strs) ==
  IF Len(strs) = 0 THEN ""
  ELSE IF Len(strs) = 1 THEN strs[1]
  ELSE strs[1] \o ", " \o JoinComma(Tail(strs))

HexStringDisplay(elems) ==
  "[" \o JoinComma([i \in 1..Len(elems) |-> HexValueDisplay(elems[i])]) \o "]"

(***************************************************************************)
(* impl Parse for HexString: the lexer state and its match arms, in the    *)
(* order the arms are written (the first arm that applies is taken).       *)
(***************************************************************************)
LexState0 ==
  [elems |-> <<>>, msb |-> 0, need_hex |-> FALSE, need_underscore |-> FALSE,
   need_dot |-> FALSE, err |-> "none"]

LexArm(s, c) ==
  CASE c = ChDot /\ s.need_dot -> "dot_second"
    [] c = ChDot /\ ~s.need_dot -> "dot_first"
    [] c # ChDot /\ s.need_dot -> "dot_err"
    [] c = ChUnderscore /\ ~s.need_dot /\ s.need_underscore -> "underscore_second"
    [] c = ChUnderscore /\ ~s.need_dot /\ ~s.need_underscore -> "underscore_first"
    [] c \notin {ChDot, ChUnderscore} /\ ~s.need_dot /\ s.need_underscore -> "underscore_err"
    [] IsHex(c) /\ ~s.need_dot /\ ~s.need_underscore /\ s.need_hex -> "hex_second"
    [] IsHex(c) /\ ~s.need_dot /\ ~s.need_underscore /\ ~s.need_hex -> "hex_first"
    [] c \notin {ChDot, ChUnderscore} /\ ~IsHex(c) /\ ~s.need_dot
         /\ ~s.need_underscore /\ s.need_hex -> "hex_err"
    [] IsWhitespace(c) /\ ~s.need_dot /\ ~s.need_underscore /\ ~s.need_hex -> "whitespace"
    [] OTHER -> "invalid"

LexApply(s, c) ==
  LET arm == LexArm(s, c) IN
  CASE arm = "dot_second" -> [s EXCEPT !.need_dot = FALSE, !.elems = Append(@, DotDot)]
    [] arm = "dot_first" -> [s EXCEPT !.need_dot = TRUE]
    [] arm = "dot_err" -> [s EXCEPT !.err = "expected a second dot"]
    [] arm = "underscore_second" ->
         [s EXCEPT !.need_underscore = FALSE, !.elems = Append(@, Underscore)]
    [] arm = "underscore_first" -> [s EXCEPT !.need_underscore = TRUE]
    [] arm = "underscore_err" -> [s EXCEPT !.err = "expected a matching underscore"]
    [] arm = "hex_second" ->
         [s EXCEPT !.need_hex = FALSE,
                   !.elems = Append(@, Number(MakeByte(s.msb, Nibble(c))))]
    [] arm = "hex_first" -> [s EXCEPT !.need_hex = TRUE, !.msb = Nibble(c)]
    [] arm = "hex_err" -> [s EXCEPT !.err = "expected a matching hex digit"]
    [] arm = "whitespace" -> s
    [] arm = "invalid" -> [s EXCEPT !.err = "invalid character"]

\* the state after the `for c in chars` loop, which stops at the first Err
RECURSIVE LexRun(_, _)
LexRun(s, cs) ==
  IF Len(cs) = 0 \/ s.err # "none" THEN s
  ELSE The({LexRun(t, Tail(cs)) : t \in {LexApply(s, Head(cs))}})

Ok(v) == [ok |-> TRUE, val |-> v, err |-> "none"]
Err(e) == [ok |-> FALSE, val |-> <<>>, err |-> e]

\* the value `parse` returns: Err from an arm, else Ok(Self { elems })
LexReturnValue(s) == IF s.err # "none" THEN Err(s.err) ELSE Ok(s.elems)

HexStringParse(cs) == LexReturnValue(LexRun(LexState0, cs))

(***************************************************************************)
(* BytePattern (byte_pattern.rs).  A pattern source is one of the three    *)
(* surface forms: form "LitStr" (data = the characters of the string       *)
(* literal), "LitByteStr" (text = the literal as written, data = its       *)
(* bytes) or "Array" (data = the element expressions).  Anything else is   *)
(* form "Other".                                                           *)
(***************************************************************************)
LitStr(cs) == [form |-> "LitStr", text |-> "", data |-> cs]
LitByteStr(t, bs) == [form |-> "LitByteStr", text |-> t, data |-> bs]
Array(es) == [form |-> "Array", text |-> "", data |-> es]
NotAPattern == [form |-> "Other", text |-> "", data |-> <<>>]

\* element expressions of an array pattern: an integer literal written in
\* decimal or as 0x.., with or without the u8 suffix; `_`; a range a..b
DecLit(v) == [e |-> "Lit", radix |-> "dec", suffix |-> FALSE, value |-> v]
HexLit(v) == [e |-> "Lit", radix |-> "hex", suffix |-> FALSE, value |-> v]
DecLitU8(v) == [e |-> "Lit", radix |-> "dec", suffix |-> TRUE, value |-> v]
Infer == [e |-> "Infer", radix |-> "", suffix |-> FALSE, value |-> 0]
RangeExpr == [e |-> "Range", radix |-> "", suffix |-> FALSE, value |-> 0]

RangesNotAllowed == "ranges are not allowed in byte patterns"
ExpectedPattern == "expected a byte array pattern, a byte string, or a hex string"

HasDotDot(elems) == \E i \in 1..Len(elems) : elems[i].kind = "DotDot"
HasRangeExpr(elems) == \E i \in 1..Len(elems) : elems[i].e = "Range"

\* impl Parse for BytePattern
BytePatternParseNoRangeCheck(src) ==
  CASE src.form = "LitByteStr" -> Ok([form |-> "LitByteStr", text |-> src.text, elems |-> src.data])
    [] src.form = "LitStr" ->
         The({IF ~hex.ok THEN Err(hex.err)
              ELSE Ok([form |-> "HexString", text |-> "", elems |-> hex.val])
              : hex \in {HexStringParse(src.data)}})
    [] src.form = "Array" -> Ok([form |-> "Array", text |-> "", elems |-> src.data])
    [] OTHER -> Err(ExpectedPattern)

BytePatternParse(src) ==
  CASE src.form = "LitByteStr" -> Ok([form |-> "LitByteStr", text |-> src.text, elems |-> src.data])
    [] src.form = "LitStr" ->
         The({IF ~hex.ok THEN Err(hex.err)
              ELSE IF HasDotDot(hex.val) THEN Err(RangesNotAllowed)
              ELSE Ok([form |-> "HexString", text |-> "", elems |-> hex.val])
              : hex \in {HexStringParse(src.data)}})
    [] src.form = "Array" ->
         IF HasRangeExpr(src.data) THEN Err(RangesNotAllowed)
         ELSE Ok([form |-> "Array", text |-> "", elems |-> src.data])
    [] OTHER -> Err(ExpectedPattern)

\* BytePattern::len
BytePatternLen(p) == Len(p.elems)

\* quote!(#t).to_string() of an element expression
ExprText(t) ==
  CASE t.e = "Lit" ->
         (IF t.radix = "dec" THEN ToString(t.value) ELSE "0x" \o Hex02X(t.value))
           \o (IF t.suffix THEN "u8" ELSE "")
    [] t.e = "Infer" -> "_"
    [] t.e = "Range" -> ".."

\* s.parse::<u8>() succeeds on plain decimal digits that fit in u8
ParsesAsU8(t) == t.e = "Lit" /\ t.radix = "dec" /\ ~t.suffix /\ t.value <= 255

\* s.parse::<u8>().map(|u| format!("{:02X}", u)).unwrap_or(s)
ArrayElemDisplay(t) == IF ParsesAsU8(t) THEN Hex02X(t.value) ELSE ExprText(t)

\* impl Display for BytePattern
BytePatternDisplayAlwaysCanonical(p) ==
  "[" \o JoinComma([i \in 1..Len(p.elems) |->
         IF p.form = "HexString" THEN HexValueDisplay(p.elems[i])
         ELSE IF p.form = "LitByteStr" THEN Hex02X(p.elems[i])
         ELSE IF p.elems[i].e = "Lit" THEN Hex02X(p.elems[i].value) ELSE "__"]) \o "]"

BytePatternDisplay(p) ==
  CASE p.form = "Array" ->
         "[" \o JoinComma([i \in 1..Len(p.elems) |-> ArrayElemDisplay(p.elems[i])]) \o "]"
    [] p.form = "HexString" -> HexStringDisplay(p.elems)
    [] p.form = "LitByteStr" -> p.text

\* impl ToTokens for BytePattern: the slice pattern spliced into `match`,
\* one matcher per position
Exact(v) == [m |-> "Exact", value |-> v]
Wildcard == [m |-> "Wildcard", value |-> 0]
OpenRange == [m |-> "OpenRange", value |-> 0]

BytePatternToTokens(p) ==
  [i \in 1..Len(p.elems) |->
     CASE p.form = "LitByteStr" -> Exact(p.elems[i])
       [] p.form = "HexString" ->
            (CASE p.elems[i].kind = "Number" -> Exact(p.elems[i].value)
               [] p.elems[i].kind = "Underscore" -> Wildcard
               [] p.elems[i].kind = "DotDot" -> OpenRange)
       [] p.form = "Array" ->
            (CASE p.elems[i].e = "Lit" -> Exact(p.elems[i].value)
               [] p.elems[i].e = "Infer" -> Wildcard
               [] p.elems[i].e = "Range" -> OpenRange)]

\* `match buf { [m1, m2, ...] => (), _ => return Err(..) }` on a buffer of
\* the pattern's length: the first arm is taken when every position agrees
RECURSIVE SliceMatches(_, _)
SliceMatchesWildcardIsZero(buf, ms) ==
  \A i \in 1..Len(ms) : buf[i] = ms[i].value
SliceMatches(buf, ms) ==
  IF Len(ms) = 0 THEN TRUE
  ELSE (Head(ms).m # "Exact" \/ Head(buf) = Head(ms).value)
       /\ SliceMatches(Tail(buf), Tail(ms))

\* format!("{:02X?}", buf)
DebugHex(buf) == "[" \o JoinComma([i \in 1..Len(buf) |-> Hex02X(buf[i])]) \o "]"

(***************************************************************************)
(* HexStructField (hex_struct_field.rs).  A field source is the token      *)
(* sequence `member: [binding @] pattern [=> expr]`: underscore says the   *)
(* member is `_`, binding that an identifier follows the colon, at that    *)
(* `@` follows the identifier, arrow that `=> expr` follows the pattern;   *)
(* expr names the expression ("le": the bytes as a little-endian integer,  *)
(* "unit": an expression of type ()).                                      *)
(***************************************************************************)
FieldSrc(u, m, b, p, a, x) ==
  [underscore |-> u, member |-> m, binding |-> b, at |-> b, pattern |-> p,
   arrow |-> a, expr |-> x]

BindingNotAllowed == "binding of _ match-only byte patterns is not allowed"
ExpectedAt == "expected @"
ExpectedFatArrow == "expected =>"
ExpectedComma == "expected ,"

NoPattern == [form |-> "Other", text |-> "", elems |-> <<>>]
NoField ==
  [kind |-> "None", member |-> "", buffer_ident |-> FALSE,
   byte_pattern |-> NoPattern, expr |-> "none", idx |-> 0]

\* the result of parsing one field: the field, and whether `=> expr` is left
\* unconsumed in the input
FieldOk(f, left) == [ok |-> TRUE, val |-> f, err |-> "none", leftover |-> left]
FieldErr(e) == [ok |-> FALSE, val |-> NoField, err |-> e, leftover |-> FALSE]

\* impl Parse for HexStructField, the Field branch taken for `_` as well
HexStructFieldParseSkipAsField(src) ==
  IF src.binding /\ ~src.at THEN FieldErr(ExpectedAt)
  ELSE The({IF ~byte_pattern.ok THEN FieldErr(byte_pattern.err)
            ELSE IF src.binding /\ ~src.arrow THEN FieldErr(ExpectedFatArrow)
            ELSE FieldOk([kind |-> IF src.underscore THEN "Match" ELSE "Field",
                          member |-> src.member,
                          buffer_ident |-> src.binding,
                          byte_pattern |-> byte_pattern.val,
                          expr |-> IF src.binding THEN src.expr ELSE "none",
                          idx |-> 0],
                         ~src.binding /\ src.arrow)
            : byte_pattern \in {BytePatternParse(src.pattern)}})

\* impl Parse for HexStructField
HexStructFieldParse(src) ==
  IF src.underscore THEN
    IF src.binding THEN FieldErr(BindingNotAllowed)
    ELSE The({IF ~pattern.ok THEN FieldErr(pattern.err)
              ELSE IF src.arrow THEN FieldErr(BindingNotAllowed)
              ELSE FieldOk([kind |-> "Match", member |-> "_", buffer_ident |-> FALSE,
                            byte_pattern |-> pattern.val, expr |-> "none",
                            idx |-> 0], FALSE)
              : pattern \in {BytePatternParse(src.pattern)}})
  ELSE
    IF src.binding /\ ~src.at THEN FieldErr(ExpectedAt)
    ELSE The({IF ~byte_pattern.ok THEN FieldErr(byte_pattern.err)
              ELSE IF src.binding /\ ~src.arrow THEN FieldErr(ExpectedFatArrow)
              ELSE FieldOk([kind |-> "Field", member |-> src.member,
                            buffer_ident |-> src.binding,
                            byte_pattern |-> byte_pattern.val,
                            expr |-> IF src.binding THEN src.expr ELSE "none",
                            idx |-> 0],
                           ~src.binding /\ src.arrow)
              : byte_pattern \in {BytePatternParse(src.pattern)}})

(***************************************************************************)
(* HexStruct (hex_struct.rs).  A struct source is the field sources in     *)
(* textual order and whether `..` and a rest expression close the list.    *)
(***************************************************************************)
StructSrc(fs, d, r) == [fields |-> fs, dot2 |-> d, rest |-> d /\ r]

NoStruct == [fields |-> <<>>, dot2_token |-> FALSE, rest |-> FALSE]

\* the `while !content.is_empty()` loop: fields parsed so far in acc, the
\* sources still in the input in srcs
RECURSIVE ParseFields(_, _)
ParseFields(acc, srcs) ==
  IF Len(srcs) = 0 THEN Ok(acc)
  ELSE The({IF ~r.ok THEN Err(r.err)
            ELSE IF r.leftover THEN Err(ExpectedComma)
            ELSE ParseFields(Append(acc, [r.val EXCEPT !.idx = Len(acc) + 1]),
                             Tail(srcs))
            : r \in {HexStructFieldParse(Head(srcs))}})

ConsecutiveMatchOnly == "consecutive match-only fields are not allowed"

AdjacentMatch(fs) ==
  \E i \in 1..(Len(fs) - 1) : fs[i].kind = "Match" /\ fs[i + 1].kind = "Match"

\* impl Parse for HexStruct
HexStructParseRejectAdjacent(src) ==
  The({IF ~fs.ok THEN Err(fs.err)
       ELSE IF AdjacentMatch(fs.val) THEN Err(ConsecutiveMatchOnly)
       ELSE [ok |-> TRUE, err |-> "none",
             val |-> [fields |-> fs.val, dot2_token |-> src.dot2, rest |-> src.rest]]
       : fs \in {ParseFields(<<>>, src.fields)}})

HexStructParse(src) ==
  The({IF ~fs.ok THEN Err(fs.err)
       ELSE [ok |-> TRUE, err |-> "none",
             val |-> [fields |-> fs.val, dot2_token |-> src.dot2, rest |-> src.rest]]
       : fs \in {ParseFields(<<>>, src.fields)}})

(***************************************************************************)
(* The generated code, as the sequence of its statements.  Each statement  *)
(* names the field whose to_tokens emitted it.                             *)
(***************************************************************************)
Stmt(o, f) == [op |-> o, field |-> f]

\* HexStructField::to_tokens(&self, next); NoField stands for None
FieldToTokensValueFirst(field, next) ==
  IF field.kind = "Match" THEN <<Stmt("read", field), Stmt("match", field)>>
  ELSE <<Stmt("read", field), Stmt("value", field), Stmt("match", field),
         Stmt("member", field)>>

FieldToTokens(field, next) ==
  IF field.kind = "Match" THEN <<Stmt("read", field), Stmt("match", field)>>
  ELSE LET match_insert ==
             IF next.kind = "Match"
             THEN <<Stmt("read", next), Stmt("match", next)>>
             ELSE <<>>
       IN <<Stmt("read", field), Stmt("match", field), Stmt("value", field)>>
            \o match_insert \o <<Stmt("member", field)>>

\* fields.iter().map(|field| field.byte_pattern().len()).max()
\*   .unwrap_or_default()
RECURSIVE MaxPatternLenMin(_)
MaxPatternLenMin(fs) ==
  IF Len(fs) = 0 THEN 0
  ELSE IF Len(fs) = 1 THEN BytePatternLen(Head(fs).byte_pattern)
  ELSE LET l == BytePatternLen(Head(fs).byte_pattern)
           m == MaxPatternLenMin(Tail(fs))
       IN IF l < m THEN l ELSE m

RECURSIVE MaxPatternLen(_)
MaxPatternLen(fs) ==
  IF Len(fs) = 0 THEN 0
  ELSE LET l == BytePatternLen(Head(fs).byte_pattern)
           m == MaxPatternLen(Tail(fs))
       IN IF l > m THEN l ELSE m

RECURSIVE FieldsToTokens(_)
FieldsToTokensWithNext(fs) ==
  IF Len(fs) = 0 THEN <<>>
  ELSE FieldToTokens(Head(fs), IF Len(fs) > 1 THEN fs[2] ELSE NoField)
         \o FieldsToTokens(Tail(fs))
FieldsToTokens(fs) ==
  IF Len(fs) = 0 THEN <<>>
  ELSE FieldToTokens(Head(fs), NoField) \o FieldsToTokens(Tail(fs))

\* HexStructField::is_struct_member: a bound field is a member of the
\* record, a skip-only field is not
IsStructMember(field) == field.kind = "Field"

\* HexStructField::to_instantiation_tokens: the member's initialiser, which
\* names the member and takes the value computed for the field
ToInstantiationTokens(field) == [member |-> field.member, field |-> field.idx]

\* the `for pair in fields.pairs()` loop that fills struct_stream
RECURSIVE StructStream(_)
StructStream(fs) ==
  IF Len(fs) = 0 THEN <<>>
  ELSE IF ~IsStructMember(Head(fs)) THEN StructStream(Tail(fs))
  ELSE <<ToInstantiationTokens(Head(fs))>> \o StructStream(Tail(fs))

\* impl ToTokens for HexStruct: the scratch array of the longest pattern's
\* length, every field's statements in declaration order (to_tokens is
\* handed no successor), then Ok(path { struct_stream dot2_token rest })
HexStructToTokens(hs) ==
  [capacity |-> MaxPatternLen(hs.fields),
   stmts |-> FieldsToTokens(hs.fields) \o <<Stmt("ok", NoField)>>,
   struct_stream |-> StructStream(hs.fields),
   dot2_token |-> hs.dot2_token, rest |-> hs.rest]

NoPlan ==
  [capacity |-> 0, stmts |-> <<>>, struct_stream |-> <<>>, dot2_token |-> FALSE,
   rest |-> FALSE]

(***************************************************************************)
(* Values of the generated code.                                           *)
(***************************************************************************)
BytesValue(bs) == [t |-> "bytes", bytes |-> bs, int |-> 0]
IntValue(n) == [t |-> "int", bytes |-> <<>>, int |-> n]
UnitValue == [t |-> "unit", bytes |-> <<>>, int |-> 0]

\* u32::from_le_bytes and its like
RECURSIVE FromLeBytes(_)
FromLeBytes(bs) == IF Len(bs) = 0 THEN 0 ELSE Head(bs) + 256 * FromLeBytes(Tail(bs))

\* `let value = expr` with the binding naming the buffer, or the buffer
\* itself when the field has no expression
EvalExprRawAlways(x, b) == BytesValue(b)

EvalExpr(x, b) ==
  CASE x = "none" -> BytesValue(b)
    [] x = "le" -> IntValue(FromLeBytes(b))
    [] OTHER -> UnitValue

Zeros(n) == [i \in 1..n |-> 0]

Min(a, b) == IF a < b THEN a ELSE b

\* <&[u8] as Read>::read: copies min(buf.len(), self.len()) bytes into the
\* front of the buffer and returns that count
SliceReadCount(data, len) == Min(len, Len(data))
SliceReadBuf(data, b) ==
  LET n == SliceReadCount(data, Len(b)) IN
  [i \in 1..Len(b) |-> IF i <= n THEN data[i] ELSE b[i]]

NoResult == [kind |-> "none", msg |-> "", expected |-> "", got |-> "", field |-> 0]
CompileError(m) == [kind |-> "CompileError", msg |-> m, expected |-> "", got |-> "", field |-> 0]
IoError(f) == [kind |-> "Io", msg |-> "", expected |-> "", got |-> "", field |-> f]
InvalidData(f, e, g) ==
  [kind |-> "InvalidData", msg |-> "expected " \o e \o ", got " \o g,
   expected |-> e, got |-> g, field |-> f]
\* Ok(path { member: value, .. , ..rest })
OkResult(rec) ==
  [kind |-> "Ok", msg |-> "", expected |-> "", got |-> "", field |-> 0,
   record |-> rec]

\* the value computed for the field of index idx among the values ms
ValueOf(ms, idx) ==
  The({ms[i].value : i \in {j \in 1..Len(ms) : ms[j].field = idx}})

(***************************************************************************)
(* State.                                                                  *)
(***************************************************************************)
VARIABLES
  \* the lexer (impl Parse for HexString)
  chars,          \* the characters of the string literal
  pos,            \* index of the character the loop is at
  lex,            \* elems, msb, need_hex, need_underscore, need_dot
  lexpc,          \* "idle", "loop", "returned"
  lexResult,      \* what parse returned
  \* one byte pattern (impl Parse / Display for BytePattern)
  patSrc,         \* the pattern as written
  patpc,          \* "idle", "source", "parsed", "rejected"
  pat,            \* the parsed pattern
  patErr,         \* the error parse returned
  patText,        \* the pattern's Display
  \* parse_struct!: the macro's input, its expansion, and the expansion's run
  hsSrc,          \* the struct as written
  phase,          \* "idle", "source", "run", "returned", "rejected"
  hs,             \* the parsed HexStruct
  plan,           \* the generated code
  pc,             \* index of the next statement of the generated code
  avail,          \* how many bytes the reader still holds
  consumed,       \* the bytes the reader has supplied so far
  failAt,         \* the read call at which the reader returns Err (0: never)
  buf,            \* the current field's buffer
  got,            \* the count the last read returned
  reads,          \* the read calls made: field and buffer length
  matched,        \* the fields whose buffer matched their pattern
  evals,          \* the fields whose value expression was evaluated
  value,          \* the current field's value
  members,        \* the member initialisers evaluated so far
  result          \* what the macro invocation came to

lexVars == <<chars, pos, lex, lexpc, lexResult>>
patVars == <<patSrc, patpc, pat, patErr, patText>>
runVars == <<hsSrc, phase, hs, plan, pc, avail, consumed, failAt, buf, got, reads,
             matched, evals, value, members, result>>
vars == <<chars, pos, lex, lexpc, lexResult, patSrc, patpc, pat, patErr, patText,
          hsSrc, phase, hs, plan, pc, avail, consumed, failAt, buf, got, reads,
          matched, evals, value, members, result>>

RECURSIVE SeqsUpTo(_, _)
SeqsUpTo(S, n) ==
  IF n = 0 THEN {<<>>}
  ELSE LET shorter == SeqsUpTo(S, n - 1) IN
       shorter \cup {Append(q, x) : q \in {r \in shorter : Len(r) = n - 1}, x \in S}

LexIdle ==
  /\ chars = <<>> /\ pos = 0 /\ lex = LexState0 /\ lexpc = "idle"
  /\ lexResult = Err("none")

PatIdle ==
  /\ patSrc = NotAPattern /\ patpc = "idle" /\ pat = NoPattern
  /\ patErr = "none" /\ patText = ""

RunIdle ==
  /\ hsSrc = StructSrc(<<>>, FALSE, FALSE) /\ phase = "idle" /\ hs = NoStruct
  /\ plan = NoPlan /\ pc = 0 /\ avail = 0 /\ consumed = <<>> /\ failAt = 0
  /\ buf = <<>> /\ got = 0 /\ reads = <<>> /\ matched = <<>> /\ evals = <<>>
  /\ value = UnitValue /\ members = <<>> /\ result = NoResult

(***************************************************************************)
(* The lexer, one action per match arm.                                    *)
(***************************************************************************)
LexInit ==
  /\ chars \in SeqsUpTo(LexAlphabet, MaxLen)
  /\ pos = 1 /\ lex = LexState0 /\ lexpc = "loop" /\ lexResult = Err("none")
  /\ PatIdle /\ RunIdle

\* the loop is at a character whose first applicable arm is `arm`
LexAt(arm) == lexpc = "loop" /\ pos <= Len(chars) /\ LexArm(lex, chars[pos]) = arm

\* the arm's body; an arm that returns Err ends the parse
LexBody ==
  /\ lex' = LexApply(lex, chars[pos])
  /\ pos' = pos + 1
  /\ IF lex'.err # "none"
     THEN lexpc' = "returned" /\ lexResult' = LexReturnValue(lex')
     ELSE UNCHANGED <<lexpc, lexResult>>
  /\ UNCHANGED <<chars, patVars, runVars>>

LexDotSecond ==
  /\ LexAt("dot_second")
  /\ LexBody

LexDotFirst ==
  /\ LexAt("dot_first")
  /\ LexBody

LexDotErr ==
  /\ LexAt("dot_err")
  /\ LexBody

LexUnderscoreSecond ==
  /\ LexAt("underscore_second")
  /\ LexBody

LexUnderscoreFirst ==
  /\ LexAt("underscore_first")
  /\ LexBody

LexUnderscoreErr ==
  /\ LexAt("underscore_err")
  /\ LexBody

LexHexSecond ==
  /\ LexAt("hex_second")
  /\ LexBody

LexHexFirst ==
  /\ LexAt("hex_first")
  /\ LexBody

LexHexErr ==
  /\ LexAt("hex_err")
  /\ LexBody

LexWhitespace ==
  /\ LexAt("whitespace")
  /\ LexBody

LexInvalid ==
  /\ LexAt("invalid")
  /\ LexBody

\* Ok(Self { elems }) after the loop
LexReturn ==
  /\ lexpc = "loop" /\ pos > Len(chars)
  /\ lexpc' = "returned" /\ lexResult' = LexReturnValue(lex)
  /\ UNCHANGED <<chars, pos, lex, patVars, runVars>>

LexNext ==
  \/ LexDotSecond \/ LexDotFirst \/ LexDotErr
  \/ LexUnderscoreSecond \/ LexUnderscoreFirst \/ LexUnderscoreErr
  \/ LexHexSecond \/ LexHexFirst \/ LexHexErr
  \/ LexWhitespace \/ LexInvalid \/ LexReturn

SpecLex == LexInit /\ [][LexNext]_vars

(***************************************************************************)
(* One byte pattern: parsed, then displayed.                               *)
(***************************************************************************)
ArrayElems == {DecLit(72), HexLit(1), DecLitU8(0), Infer, RangeExpr}

ByteStrings ==
  {LitByteStr("b\"\"", <<>>), LitByteStr("b\"HEX\"", <<72, 69, 88>>),
   LitByteStr("b\"H\\x00\"", <<72, 0>>)}

PatternSources ==
  {LitStr(cs) : cs \in SeqsUpTo(LexAlphabet, MaxLen)}
    \cup {Array(es) : es \in SeqsUpTo(ArrayElems, MaxElems)}
    \cup ByteStrings \cup {NotAPattern}

PatInit ==
  /\ patSrc \in PatternSources
  /\ patpc = "source" /\ pat = NoPattern /\ patErr = "none" /\ patText = ""
  /\ LexIdle /\ RunIdle

\* BytePattern::parse returns Ok
PatParseOk ==
  /\ patpc = "source"
  /\ \E r \in {BytePatternParse(patSrc)} :
       /\ r.ok
       /\ pat' = r.val
  /\ patpc' = "parsed"
  /\ UNCHANGED <<patSrc, patErr, patText, lexVars, runVars>>

\* BytePattern::parse returns Err
PatParseErr ==
  /\ patpc = "source"
  /\ \E r \in {BytePatternParse(patSrc)} :
       /\ ~r.ok
       /\ patErr' = r.err
  /\ patpc' = "rejected"
  /\ UNCHANGED <<patSrc, pat, patText, lexVars, runVars>>

\* format!("{}", byte_pattern)
PatDisplay ==
  /\ patpc = "parsed"
  /\ patText' = BytePatternDisplay(pat)
  /\ patpc' = "shown"
  /\ UNCHANGED <<patSrc, pat, patErr, lexVars, runVars>>

PatNext == PatParseOk \/ PatParseErr \/ PatDisplay

SpecPattern == PatInit /\ [][PatNext]_vars

(***************************************************************************)
(* parse_struct!: the struct is parsed, its expansion generated, and the   *)
(* expansion run against a reader.                                         *)
(***************************************************************************)
\* the bytes a reader supplies: 00 'H' 'E' 'X' 'Y'
ByteVals == {0, 72, 69, 88, 89}

\* the text of "48 45 58" and of "45__" and of "48.."
Hex484558 == <<52, 56, 32, 52, 53, 32, 53, 56>>
Hex45Any == <<52, 53, 95, 95>>
Hex48Range == <<52, 56, 46, 46>>

\* _: "48 45 58"   a: [0x48, _]   b: buf @ "45__" => le(buf)   _: b"HE"
\* c: [72]   _: "48.."
FieldSources ==
  {FieldSrc(TRUE, "_", FALSE, LitStr(Hex484558), FALSE, "none"),
   FieldSrc(FALSE, "a", FALSE, Array(<<HexLit(72), Infer>>), FALSE, "none"),
   FieldSrc(FALSE, "b", TRUE, LitStr(Hex45Any), TRUE, "le"),
   FieldSrc(TRUE, "_", FALSE, LitByteStr("b\"HE\"", <<72, 69>>), FALSE, "none"),
   FieldSrc(FALSE, "c", FALSE, Array(<<DecLit(72)>>), FALSE, "none"),
   FieldSrc(TRUE, "_", FALSE, LitStr(Hex48Range), FALSE, "none")}

StructSources ==
  {StructSrc(fs, d, d) : fs \in SeqsUpTo(FieldSources, MaxFields), d \in BOOLEAN}

Init ==
  /\ hsSrc \in StructSources
  /\ avail \in 0..MaxStream
  /\ failAt \in 0..2
  /\ phase = "source" /\ hs = NoStruct /\ plan = NoPlan /\ pc = 0
  /\ consumed = <<>> /\ buf = <<>> /\ got = 0 /\ reads = <<>> /\ matched = <<>>
  /\ evals = <<>> /\ value = UnitValue /\ members = <<>> /\ result = NoResult
  /\ LexIdle /\ PatIdle

\* parse_macro_input!(stream as HexStruct) succeeds and quote!(#input)
\* expands it
Expand ==
  /\ phase = "source"
  /\ \E input \in {HexStructParse(hsSrc)} :
       /\ input.ok
       /\ hs' = input.val
       /\ plan' = HexStructToTokens(input.val)
  /\ phase' = "run" /\ pc' = 1
  /\ UNCHANGED <<hsSrc, avail, consumed, failAt, buf, got, reads, evals, value,
                 members, result, matched, lexVars, patVars>>

\* parse_macro_input! returns the compile error
Reject ==
  /\ phase = "source"
  /\ \E input \in {HexStructParse(hsSrc)} :
       /\ ~input.ok
       /\ result' = CompileError(input.err)
  /\ phase' = "rejected"
  /\ UNCHANGED <<hsSrc, hs, plan, pc, avail, consumed, failAt, buf, got, reads,
                 evals, value, members, matched, lexVars, patVars>>

At(o) == phase = "run" /\ pc <= Len(plan.stmts) /\ plan.stmts[pc].op = o
Cur == plan.stmts[pc].field
CurLen == BytePatternLen(Cur.byte_pattern)

\* let mut buf = [0; len]; reader.read(&mut buf)?  -- the read returns Ok(n)
ReadOk ==
  /\ At("read")
  /\ failAt # Len(reads) + 1
  /\ \E data \in [1..SliceReadCount(Zeros(avail), CurLen) -> ByteVals] :
       /\ buf' = SliceReadBuf(data, Zeros(CurLen))
       /\ got' = SliceReadCount(data, CurLen)
       /\ consumed' = consumed \o data
       /\ avail' = avail - Len(data)
  /\ reads' = Append(reads, [field |-> Cur.idx, len |-> CurLen])
  /\ pc' = pc + 1
  /\ UNCHANGED <<hsSrc, phase, hs, plan, failAt, evals, value, members, result,
                 matched, lexVars, patVars>>

\* reader.read(&mut buf)?  -- the read returns Err, which `?` returns
ReadErr ==
  /\ At("read")
  /\ failAt = Len(reads) + 1
  /\ buf' = Zeros(CurLen)
  /\ got' = 0
  /\ reads' = Append(reads, [field |-> Cur.idx, len |-> CurLen])
  /\ result' = IoError(Cur.idx)
  /\ phase' = "returned"
  /\ UNCHANGED <<hsSrc, hs, plan, pc, avail, consumed, failAt, evals, value,
                 members, matched, lexVars, patVars>>

\* match buf { pattern => (), .. }  -- the pattern's arm
MatchOk ==
  /\ At("match")
  /\ SliceMatches(buf, BytePatternToTokens(Cur.byte_pattern))
  /\ matched' = Append(matched, Cur.idx)
  /\ pc' = pc + 1
  /\ UNCHANGED <<hsSrc, phase, hs, plan, avail, consumed, failAt, buf, got, reads,
                 evals, value, members, result, lexVars, patVars>>

\* match buf { .., _ => return Err(InvalidData, "expected {}, got {:02X?}") }
MatchErr ==
  /\ At("match")
  /\ ~SliceMatches(buf, BytePatternToTokens(Cur.byte_pattern))
  /\ result' = InvalidData(Cur.idx, BytePatternDisplay(Cur.byte_pattern), DebugHex(buf))
  /\ phase' = "returned"
  /\ UNCHANGED <<hsSrc, hs, plan, pc, avail, consumed, failAt, buf, got, reads,
                 evals, value, members, matched, lexVars, patVars>>

\* let value = expr;
EvalValue ==
  /\ At("value")
  /\ value' = EvalExpr(Cur.expr, buf)
  /\ evals' = Append(evals, Cur.idx)
  /\ pc' = pc + 1
  /\ UNCHANGED <<hsSrc, phase, hs, plan, avail, consumed, failAt, buf, got, reads,
                 members, result, matched, lexVars, patVars>>

\* member: { ..; value },
Member ==
  /\ At("member")
  /\ members' = Append(members, [member |-> Cur.member, value |-> value,
                                  field |-> Cur.idx])
  /\ pc' = pc + 1
  /\ UNCHANGED <<hsSrc, phase, hs, plan, avail, consumed, failAt, buf, got, reads,
                 evals, value, result, matched, lexVars, patVars>>

\* Ok(path { struct_stream dot2_token rest }): each initialiser takes its
\* field's value
ReturnOk ==
  /\ At("ok")
  /\ result' = OkResult([members |->
                           [i \in 1..Len(plan.struct_stream) |->
                              [member |-> plan.struct_stream[i].member,
                               value |-> ValueOf(members, plan.struct_stream[i].field)]],
                         dot2_token |-> plan.dot2_token, rest |-> plan.rest])
  /\ phase' = "returned"
  /\ UNCHANGED <<hsSrc, hs, plan, pc, avail, consumed, failAt, buf, got, reads,
                 evals, value, members, matched, lexVars, patVars>>

Next ==
  \/ Expand \/ Reject \/ ReadOk \/ ReadErr \/ MatchOk \/ MatchErr
  \/ EvalValue \/ Member \/ ReturnOk

Spec == Init /\ [][Next]_vars

(***************************************************************************)
(* parse_struct! over a struct of one field, the field taking every shape  *)
(* `member: [binding [@]] pattern [=> expr]` can be written in.            *)
(***************************************************************************)
\* an identifier after the colon with no `@` behind it
FieldSrcNoAt(u, m, p, a, x) == [FieldSrc(u, m, TRUE, p, a, x) EXCEPT !.at = FALSE]

\* "45__"   [0x48, _]   b"HE"   "48.."   and a token that starts no pattern
FieldPatterns ==
  {LitStr(Hex45Any), Array(<<HexLit(72), Infer>>),
   LitByteStr("b\"HE\"", <<72, 69>>), LitStr(Hex48Range), NotAPattern}

\* what follows the pattern: nothing, `=> le(..)` or `=> ()`
FieldTails == {<<FALSE, "none">>, <<TRUE, "le">>, <<TRUE, "unit">>}

FieldShapes ==
  {FieldSrc(u, IF u THEN "_" ELSE "a", b, p, t[1], t[2]) :
     u \in BOOLEAN, b \in BOOLEAN, p \in FieldPatterns, t \in FieldTails}
    \cup {FieldSrcNoAt(u, IF u THEN "_" ELSE "a", p, t[1], t[2]) :
            u \in BOOLEAN, p \in FieldPatterns, t \in FieldTails}

FieldInit ==
  /\ hsSrc \in {StructSrc(<<f>>, d, d) : f \in FieldShapes, d \in BOOLEAN}
  /\ avail \in 0..MaxStream
  /\ failAt \in 0..2
  /\ phase = "source" /\ hs = NoStruct /\ plan = NoPlan /\ pc = 0
  /\ consumed = <<>> /\ buf = <<>> /\ got = 0 /\ reads = <<>> /\ matched = <<>>
  /\ evals = <<>> /\ value = UnitValue /\ members = <<>> /\ result = NoResult
  /\ LexIdle /\ PatIdle

SpecField == FieldInit /\ [][Next]_vars

(***************************************************************************)
(* Properties of the lexer, checked under SpecLex.                         *)
(***************************************************************************)
LexPending == lex.need_hex \/ lex.need_underscore \/ lex.need_dot

\* C3: an input in which a hex digit, an underscore or a dot is left without
\* its partner, the end of the input included, never lexes to a pattern:
\* when parse returns with a token half complete it returns an error.
C3_UnpairedIsError == (lexpc = "returned" /\ LexPending) => ~lexResult.ok

IsEvenHex(cs) == Len(cs) % 2 = 0 /\ \A i \in 1..Len(cs) : IsHex(cs[i])

\* the character c, upper-cased, as text
UpperText(c) ==
  CASE c = 48 -> "0" [] c = 49 -> "1" [] c = 50 -> "2" [] c = 51 -> "3"
    [] c = 52 -> "4" [] c = 53 -> "5" [] c = 54 -> "6" [] c = 55 -> "7"
    [] c = 56 -> "8" [] c = 57 -> "9"
    [] c \in {65, 97} -> "A" [] c \in {66, 98} -> "B" [] c \in {67, 99} -> "C"
    [] c \in {68, 100} -> "D" [] c \in {69, 101} -> "E" [] c \in {70, 102} -> "F"

PairsUpperCased(cs) ==
  "[" \o JoinComma([i \in 1..(Len(cs) \div 2) |->
                      UpperText(cs[2 * i - 1]) \o UpperText(cs[2 * i])]) \o "]"

\* C6: an even-length string of hex digits lexes to a pattern of half its
\* length whose Display is the digit pairs upper-cased, in order, as
\* "[NN, NN, ...]".
C6_HexRoundTrip ==
  (lexpc = "returned" /\ IsEvenHex(chars)) =>
    /\ lexResult.ok
    /\ Len(lexResult.val) = Len(chars) \div 2
    /\ HexStringDisplay(lexResult.val) = PairsUpperCased(chars)

\* "7dD7" has been lexed and displays as "[7D, D7]"
C6_Witness ==
  /\ lexpc = "returned" /\ chars = <<55, 100, 68, 55>>
  /\ lexResult.ok /\ HexStringDisplay(lexResult.val) = "[7D, D7]"

InsertAt(cs, p, w) == SubSeq(cs, 1, p) \o <<w>> \o SubSeq(cs, p + 1, Len(cs))

\* p is the start, the end, or a place where every token begun is complete
BetweenTokens(cs, p) ==
  \/ p = 0
  \/ p = Len(cs)
  \/ LET st == LexRun(LexState0, SubSeq(cs, 1, p)) IN
     ~st.need_hex /\ ~st.need_underscore /\ ~st.need_dot

\* C7: for a string that lexes, a whitespace character inserted at the
\* start, at the end or between two complete tokens leaves the result the
\* same.
C7_WhitespaceInsertion ==
  (lexpc = "returned" /\ lexResult.ok) =>
    \A p \in 0..Len(chars), w \in {ChSpace, ChCR, ChLF, ChTab} :
      BetweenTokens(chars, p) => HexStringParse(InsertAt(chars, p, w)) = lexResult

(***************************************************************************)
(* Properties of one byte pattern, checked under SpecPattern.              *)
(***************************************************************************)
\* the two-character tokens of a hex literal read off its text, whitespace
\* between tokens dropped; <<"bad">> marks text that is not a token sequence
RECURSIVE PairTokens(_)
PairTokens(cs) ==
  IF Len(cs) = 0 THEN <<>>
  ELSE IF IsWhitespace(cs[1]) THEN PairTokens(Tail(cs))
  ELSE IF Len(cs) = 1 THEN <<"bad">>
  ELSE LET t == IF cs[1] = ChDot /\ cs[2] = ChDot THEN ".."
                ELSE IF cs[1] = ChUnderscore /\ cs[2] = ChUnderscore THEN "__"
                ELSE IF IsHex(cs[1]) /\ IsHex(cs[2]) THEN "NN"
                ELSE "bad"
       IN <<t>> \o PairTokens(Tail(Tail(cs)))

Has(ts, t) == \E i \in 1..Len(ts) : ts[i] = t

\* the pattern as written holds a range: a `..` token among the valid
\* tokens of a hex literal, or a range expression among an array's elements
WrittenWithRange(src) ==
  \/ src.form = "LitStr" /\ Has(PairTokens(src.data), "..")
       /\ ~Has(PairTokens(src.data), "bad")
  \/ src.form = "Array" /\ \E i \in 1..Len(src.data) : src.data[i].e = "Range"

\* C8: a field pattern written with a range is rejected with the "ranges
\* are not allowed in byte patterns" error whatever valid tokens surround
\* the range, and every accepted pattern has no open-range matcher and as
\* many matchers as its length.
C8_RangesRejected ==
  /\ (patpc # "source" /\ WrittenWithRange(patSrc)) =>
       (patpc = "rejected" /\ patErr = RangesNotAllowed)
  /\ patpc \in {"parsed", "shown"} =>
       /\ \A i \in 1..BytePatternLen(pat) : BytePatternToTokens(pat)[i] # OpenRange
       /\ Len(BytePatternToTokens(pat)) = BytePatternLen(pat)

\* "77.." has been rejected for its range, and so has [72, a..b, _]
C8_Witness ==
  /\ patpc = "rejected" /\ patErr = RangesNotAllowed
  /\ patSrc = LitStr(<<55, 55, ChDot, ChDot>>)

C8_WitnessArray ==
  /\ patpc = "rejected" /\ patErr = RangesNotAllowed
  /\ patSrc = Array(<<DecLit(72), RangeExpr, Infer>>)

(***************************************************************************)
(* Properties of parse_struct!, checked under Spec.                        *)
(***************************************************************************)
\* C1: when the reader cannot supply all the bytes of a field, the parse
\* fails with the reader's I/O error and never with InvalidData: a parse
\* that has returned after a read that left the buffer partly filled has
\* returned the I/O error.
C1_ShortReadIsIoError ==
  (phase = "returned" /\ reads # <<>> /\ got < Len(buf)) => result.kind = "Io"

\* the struct as written has two adjacent `_:` fields
AdjacentSkipWritten(src) ==
  \E i \in 1..(Len(src.fields) - 1) :
    src.fields[i].underscore /\ src.fields[i + 1].underscore

\* every field of the struct as written parses on its own and leaves
\* nothing before the comma
EachFieldParses(src) ==
  \A i \in 1..Len(src.fields) :
    HexStructFieldParse(src.fields[i]).ok /\ ~HexStructFieldParse(src.fields[i]).leftover

\* C2 as claimed: a struct with two adjacent skip-only fields fails
\* compilation (with the "consecutive match-only" error when nothing else
\* is wrong) and no code is generated.
C2_AdjacentSkipRejected ==
  (phase # "source" /\ AdjacentSkipWritten(hsSrc)) =>
    /\ phase = "rejected" /\ plan = NoPlan
    /\ EachFieldParses(hsSrc) => result.msg = ConsecutiveMatchOnly

\* C2 as amended: a struct is accepted exactly when each of its fields
\* parses on its own, adjacent skip-only fields included; no "consecutive
\* match-only" error is ever reported, and a skip-only field between bound
\* fields is accepted.
C2_AdjacentSkipAccepted ==
  /\ result.msg # ConsecutiveMatchOnly
  /\ phase = "rejected" => ~EachFieldParses(hsSrc)
  /\ (phase = "run" /\ pc = 1) =>
       (EachFieldParses(hsSrc) /\ Len(hs.fields) = Len(hsSrc.fields))
  /\ phase \in {"run", "returned"} => plan # NoPlan

\* `_: "48 45 58", _: b"HE"` was expanded and its run returned Ok
C2_Witness ==
  /\ phase = "returned" /\ result.kind = "Ok"
  /\ Len(hs.fields) = 2 /\ AdjacentSkipWritten(hsSrc)
  /\ matched = <<1, 2>>

\* C4: a mismatch at field k ends the parse at once with field k's error:
\* the last read is field k's, no value expression of field k or of a later
\* field has been evaluated, no member of field k or later exists, and
\* nothing further happens.
C4_MismatchEndsParse ==
  result.kind = "InvalidData" =>
    /\ phase = "returned"
    /\ reads[Len(reads)].field = result.field
    /\ \A i \in 1..Len(reads) : reads[i].field <= result.field
    /\ \A i \in 1..Len(evals) : evals[i] < result.field
    /\ \A i \in 1..Len(members) :
         \E j \in 1..(result.field - 1) : hs.fields[j].member = members[i].member
    /\ result.expected = BytePatternDisplay(hs.fields[result.field].byte_pattern)
    /\ ~ENABLED Next

\* the second of three fields, a bound one with an expression, mismatched
C4_Witness ==
  /\ result.kind = "InvalidData" /\ result.field = 2
  /\ Len(hs.fields) = 3 /\ hs.fields[2].expr = "le" /\ evals = <<1>>

\* the reads a whole run makes: one per declared field, in order, of the
\* field's pattern length
DeclaredReads ==
  [i \in 1..Len(hs.fields) |->
     [field |-> i, len |-> BytePatternLen(hs.fields[i].byte_pattern)]]

IsPrefix(a, b) == Len(a) <= Len(b) /\ a = SubSeq(b, 1, Len(a))

\* C5: the reads are issued one per declared field in declaration order,
\* each of the field's pattern length, none twice and none before every
\* earlier field has been read and matched; a run that returns Ok has
\* issued exactly all of them.
C5_OneReadPerFieldInOrder ==
  phase \in {"run", "returned"} =>
    /\ IsPrefix(reads, DeclaredReads)
    /\ matched = [i \in 1..Len(matched) |-> i]
    /\ Len(matched) <= Len(reads) /\ Len(reads) <= Len(matched) + 1
    /\ result.kind = "Ok" => (reads = DeclaredReads /\ Len(matched) = Len(reads))

\* c: [72], _: b"HE", a: [0x48, _] was run to Ok
C5_Witness ==
  /\ result.kind = "Ok" /\ Len(hs.fields) = 3
  /\ hs.fields[1].kind = "Field" /\ hs.fields[2].kind = "Match"
  /\ hs.fields[3].kind = "Field"
  /\ reads = <<[field |-> 1, len |-> 1], [field |-> 2, len |-> 2],
               [field |-> 3, len |-> 2]>>

\* position i of a parsed pattern holds an exact matcher, and its value
IsExactAt(p, i) ==
  CASE p.form = "LitByteStr" -> TRUE
    [] p.form = "HexString" -> p.elems[i].kind = "Number"
    [] p.form = "Array" -> p.elems[i].e = "Lit"
ExactValueAt(p, i) == IF p.form = "LitByteStr" THEN p.elems[i] ELSE p.elems[i].value

ExactPositionsAgree(b, p) ==
  \A i \in 1..BytePatternLen(p) : IsExactAt(p, i) => b[i] = ExactValueAt(p, i)

\* a buffer that agrees with p at its exact positions and holds v at
\* position w
AgreeingWith(p, w, v) ==
  [i \in 1..BytePatternLen(p) |->
     IF i = w THEN v ELSE IF IsExactAt(p, i) THEN ExactValueAt(p, i) ELSE 0]

\* C9: a field whose bytes were all read matches exactly when the buffer
\* equals the matcher's value at every exact position; no byte value at a
\* wildcard position makes a buffer mismatch.
C9_MatchIffExactAgree ==
  /\ (got = Len(buf) /\ result.kind = "InvalidData") =>
       ~ExactPositionsAgree(buf, hs.fields[result.field].byte_pattern)
  /\ (got = Len(buf) /\ phase = "run" /\ pc > 1 /\ plan.stmts[pc - 1].op = "match") =>
       ExactPositionsAgree(buf, plan.stmts[pc - 1].field.byte_pattern)
  /\ (phase = "run" /\ pc = 1) =>
       \A k \in 1..Len(hs.fields) :
         \A w \in 1..BytePatternLen(hs.fields[k].byte_pattern) :
           ~IsExactAt(hs.fields[k].byte_pattern, w) =>
             \A v \in 0..255 :
               SliceMatches(AgreeingWith(hs.fields[k].byte_pattern, w, v),
                            BytePatternToTokens(hs.fields[k].byte_pattern))

\* a: [0x48, _] has just matched the bytes 48 59
C9_Witness ==
  /\ phase = "run" /\ pc > 1 /\ plan.stmts[pc - 1].op = "match"
  /\ plan.stmts[pc - 1].field.member = "a"
  /\ got = 2 /\ buf = <<72, 89>>

\* the text of one two-character token of a hex literal, canonically:
\* the digits upper-cased, `__` as it is
RECURSIVE PairTexts(_)
PairTexts(cs) ==
  IF Len(cs) < 2 THEN <<>>
  ELSE IF IsWhitespace(cs[1]) THEN PairTexts(Tail(cs))
  ELSE <<IF cs[1] = ChUnderscore THEN "__" ELSE UpperText(cs[1]) \o UpperText(cs[2])>>
         \o PairTexts(Tail(Tail(cs)))

TwoHexDigits(v) == HexChars[(v \div 16) + 1] \o HexChars[(v % 16) + 1]

\* the canonical rendering of a pattern as written: two upper-case hex
\* digits per exact byte and `__` per wildcard, whatever the surface form
CanonicalText(src) ==
  CASE src.form = "LitStr" -> "[" \o JoinComma(PairTexts(src.data)) \o "]"
    [] src.form = "LitByteStr" ->
         "[" \o JoinComma([i \in 1..Len(src.data) |-> TwoHexDigits(src.data[i])]) \o "]"
    [] src.form = "Array" ->
         "[" \o JoinComma([i \in 1..Len(src.data) |->
                IF src.data[i].e = "Lit" THEN TwoHexDigits(src.data[i].value)
                ELSE "__"]) \o "]"

\* an array element as written
WrittenText(t) ==
  CASE t.e = "Infer" -> "_"
    [] t.e = "Lit" /\ t.radix = "hex" -> "0x" \o TwoHexDigits(t.value)
    [] t.e = "Lit" /\ t.radix = "dec" ->
         ToString(t.value) \o (IF t.suffix THEN "u8" ELSE "")

\* the rendering by surface form: canonical for a hex literal; the literal
\* as written for a byte string; for an array its elements as written,
\* plain decimal literals excepted, which show as two hex digits
TextBySurfaceForm(src) ==
  CASE src.form = "LitStr" -> CanonicalText(src)
    [] src.form = "LitByteStr" -> src.text
    [] src.form = "Array" ->
         "[" \o JoinComma([i \in 1..Len(src.data) |->
                IF src.data[i].e = "Lit" /\ src.data[i].radix = "dec"
                   /\ ~src.data[i].suffix
                THEN TwoHexDigits(src.data[i].value)
                ELSE WrittenText(src.data[i])]) \o "]"

\* the bytes the last read supplied
LastReadBytes == SubSeq(consumed, Len(consumed) - got + 1, Len(consumed))

TwoHexGroups(bs) == "[" \o JoinComma([i \in 1..Len(bs) |-> TwoHexDigits(bs[i])]) \o "]"

C10_WitnessByteString ==
  /\ result.kind = "InvalidData"
  /\ result.expected = "b\"HE\"" /\ result.got = "[48, 59]"

(***************************************************************************)
(* Properties of one field's grammar, checked under SpecField.             *)
(***************************************************************************)
\* the one field of the struct as written, and as parsed
TheFieldSrc == hsSrc.fields[1]
TheField == hs.fields[1]

C11_WitnessTransform ==
  /\ phase = "rejected" /\ result.msg = BindingNotAllowed
  /\ TheFieldSrc = FieldSrc(TRUE, "_", FALSE, LitByteStr("b\"HE\"", <<72, 69>>), TRUE, "unit")

\* the field as written is a bound field of one of the four shapes: a
\* member, an optional `binding @`, a valid pattern, an optional `=> expr`
BoundFieldWritten ==
  /\ ~TheFieldSrc.underscore
  /\ TheFieldSrc.binding => TheFieldSrc.at
  /\ BytePatternParse(TheFieldSrc.pattern).ok

\* C12: a bound field is accepted with a binding and a transform, without
\* a binding and with a transform, and without a binding and without a
\* transform; with a binding and no transform it is rejected with a compile
\* error.
C12_BoundFieldShapes ==
  (phase # "source" /\ BoundFieldWritten) =>
    IF TheFieldSrc.binding /\ ~TheFieldSrc.arrow
    THEN phase = "rejected" /\ result.kind = "CompileError"
    ELSE phase # "rejected" /\ TheField.kind = "Field"

(***************************************************************************)
(* Properties of the assembled record, checked under Spec.                 *)
(***************************************************************************)
\* the indices of the bound fields of the struct as written, in order
BoundIdx(src) ==
  SelectSeq([i \in 1..Len(src.fields) |-> i], LAMBDA i : ~src.fields[i].underscore)

\* how many bytes the fields before field i ask for
RECURSIVE BytesBefore(_)
BytesBefore(i) == IF i <= 1 THEN 0 ELSE BytesBefore(i - 1) + reads[i - 1].len

\* the bytes field i was matched on: its share of the bytes the reader
\* supplied, followed by 00 where the reader had run out
MatchedBytes(i) ==
  [k \in 1..reads[i].len |->
     IF BytesBefore(i) + k <= Len(consumed) THEN consumed[BytesBefore(i) + k] ELSE 0]

\* the bytes as a little-endian integer
RECURSIVE LittleEndian(_, _)
LittleEndian(bs, k) ==
  IF k > Len(bs) THEN 0 ELSE bs[k] + 256 * LittleEndian(bs, k + 1)

\* the value the field written as src is to hold for the bytes bs
DeclaredValue(src, bs) ==
  IF ~src.arrow THEN [t |-> "bytes", bytes |-> bs, int |-> 0]
  ELSE IF src.expr = "le" THEN [t |-> "int", bytes |-> <<>>, int |-> LittleEndian(bs, 1)]
  ELSE [t |-> "unit", bytes |-> <<>>, int |-> 0]

\* C13: a parse in which every field matched returns Ok, and the record it
\* returns holds exactly one member per bound field, in declaration order,
\* and none for a skip-only field, followed by the `..rest` expression when
\* one is declared; a member's value is the bytes its field was matched on
\* when the field has no transform and the transform of those bytes
\* otherwise.
C13_RecordOfBoundFields ==
  /\ (phase = "returned" /\ Len(matched) = Len(hs.fields)) => result.kind = "Ok"
  /\ (phase = "returned" /\ result.kind = "Ok") =>
       /\ Len(matched) = Len(hsSrc.fields)
       /\ Len(result.record.members) = Len(BoundIdx(hsSrc))
       /\ \A k \in 1..Len(BoundIdx(hsSrc)) :
            result.record.members[k] =
              [member |-> hsSrc.fields[BoundIdx(hsSrc)[k]].member,
               value |-> DeclaredValue(hsSrc.fields[BoundIdx(hsSrc)[k]],
                                       MatchedBytes(BoundIdx(hsSrc)[k]))]
       /\ result.record.dot2_token = hsSrc.dot2
       /\ result.record.rest = hsSrc.rest

\* `_: b"HE", c: [72], b: buf @ "45__" => le(buf), ..rest` on the bytes
\* 48 45 48 45 58 gives c == [0x48] and b == 0x5845
C13_Witness ==
  /\ phase = "returned" /\ result.kind = "Ok"
  /\ consumed = <<72, 69, 72, 69, 88>>
  /\ Len(hsSrc.fields) = 3 /\ hsSrc.fields[1].underscore /\ hsSrc.rest
  /\ result.record.members =
       <<[member |-> "c", value |-> BytesValue(<<72>>)],
         [member |-> "b", value |-> IntValue(22597)]>>
  /\ result.record.rest

(***************************************************************************)
(* Properties of the lexer's pending tokens, checked under SpecLex.        *)
(***************************************************************************)
\* how many tokens the state s has begun and not completed
PendingCount(s) ==
  (IF s.need_hex THEN 1 ELSE 0) + (IF s.need_underscore THEN 1 ELSE 0)
    + (IF s.need_dot THEN 1 ELSE 0)

\* the character c is the partner the state s awaits
IsPartner(s, c) ==
  \/ s.need_hex /\ IsHex(c)
  \/ s.need_underscore /\ c = ChUnderscore
  \/ s.need_dot /\ c = ChDot

\* C14: at most one token is ever pending, and while one is pending the
\* next character either is its partner, which completes it and leaves
\* nothing pending, or is a lexical error.
C14_PendingCompletesOrFails ==
  /\ PendingCount(lex) <= 1
  /\ (lexpc = "loop" /\ pos <= Len(chars) /\ LexPending) =>
       IF IsPartner(lex, chars[pos])
       THEN /\ LexApply(lex, chars[pos]).err = "none"
            /\ PendingCount(LexApply(lex, chars[pos])) = 0
            /\ Len(LexApply(lex, chars[pos]).elems) = Len(lex.elems) + 1
       ELSE LexApply(lex, chars[pos]).err # "none"

\* the positions of cs whose character satisfies Is, in order
PositionsOf(cs, Is(_)) == SelectSeq([i \in 1..Len(cs) |-> i], Is)

\* the tokens written in cs, each with the position of its first character:
\* the hex digits pair up in order, and so do the underscores and the dots;
\* an exact token's value is its first nibble times 16 plus its second
WrittenTokens(cs) ==
  LET hp == PositionsOf(cs, LAMBDA i : IsHex(cs[i]))
      up == PositionsOf(cs, LAMBDA i : cs[i] = ChUnderscore)
      dp == PositionsOf(cs, LAMBDA i : cs[i] = ChDot)
  IN {[first |-> hp[2 * k - 1],
       token |-> Number(16 * Nibble(cs[hp[2 * k - 1]]) + Nibble(cs[hp[2 * k]]))] :
        k \in 1..(Len(hp) \div 2)}
     \cup {[first |-> up[2 * k - 1], token |-> Underscore] : k \in 1..(Len(up) \div 2)}
     \cup {[first |-> dp[2 * k - 1], token |-> DotDot] : k \in 1..(Len(dp) \div 2)}

\* the tokens of ts in the order of their first characters
RECURSIVE ByFirstCharacter(_)
ByFirstCharacter(ts) ==
  IF ts = {} THEN <<>>
  ELSE LET t == CHOOSE x \in ts : \A y \in ts : x.first <= y.first
       IN <<t.token>> \o ByFirstCharacter(ts \ {t})

\* C15: for an input the lexer accepts, the tokens it returns are the
\* tokens written in the input in the order of their first characters, and
\* each exact token's value is (first nibble << 4) | second nibble of its
\* own two characters.
C15_TokensInInputOrder ==
  (lexpc = "returned" /\ lexResult.ok) =>
    lexResult.val = ByFirstCharacter(WrittenTokens(chars))

(***************************************************************************)
(* Properties of the scratch buffer, checked under Spec.                   *)
(***************************************************************************)
\* the number of bytes the pattern as written stands for
WrittenLen(src) ==
  IF src.form = "LitStr" THEN Len(PairTokens(src.data)) ELSE Len(src.data)

\* C16: the scratch buffer the generated code declares is as long as the
\* longest pattern among the declared fields, bound and skip-only, and 0
\* long when no field is declared; so no field's read asks for more bytes
\* than the buffer holds.
C16_CapacityIsMaxLength ==
  phase \in {"run", "returned"} =>
    /\ \A i \in 1..Len(hsSrc.fields) :
         WrittenLen(hsSrc.fields[i].pattern) <= plan.capacity
    /\ IF Len(hsSrc.fields) = 0 THEN plan.capacity = 0
       ELSE \E i \in 1..Len(hsSrc.fields) :
              WrittenLen(hsSrc.fields[i].pattern) = plan.capacity
    /\ \A r \in 1..Len(reads) : reads[r].len <= plan.capacity

\* `c: [72], _: "48 45 58", a: [0x48, _]`: the buffer is 3 long and the
\* three reads asked for 1, 3 and 2 bytes
C16_Witness ==
  /\ phase = "returned" /\ plan.capacity = 3
  /\ Len(reads) = 3 /\ reads[1].len = 1 /\ reads[2].len = 3 /\ reads[3].len = 2
  /\ hs.fields[2].kind = "Match" /\ hs.fields[3].kind = "Field"

\* a struct with no field has been expanded with a buffer 0 long
C16_WitnessEmpty ==
  /\ phase = "returned" /\ Len(hsSrc.fields) = 0 /\ plan.capacity = 0
  /\ result.kind = "Ok"

====
